---- MODULE Spec2Model ----
(***************************************************************************)
(* The client of the video chat: the React component App, its socket       *)
(* handlers (partner_found, signal, partner_left), its user actions        *)
(* (findPartner, endChat) and cleanup, in the four snapshots the           *)
(* repository holds:                                                       *)
(*   v1  src/src/App.js    1-279   createPeerConnection(rid)               *)
(*   v2  src/src/App.js  281-555   handlers registered once (deps [])      *)
(*   v3  src/src/App.js  557-831   engine created eagerly on any signal    *)
(*   v4  src/unnamed/part_000      handlers re-registered per roomId       *)
(*                                                                         *)
(* An async handler runs to its first await in the step of the event that  *)
(* starts it; what follows each await is a later step (Resume).  The       *)
(* RTCPeerConnection behind peerRef is the browser's: its methods are      *)
(* modelled by what the W3C WebRTC recommendation says they do (signaling  *)
(* state machine, operations chain, rejection of out-of-order calls).      *)
(***************************************************************************)
EXTENDS Integers, Sequences, FiniteSets, TLC

VARIABLES
  variant,         \* which snapshot of App.js runs (fixed for a behaviour)
  roomId,          \* useState(null): the active room
  status,          \* useState("Not connected")
  messages,        \* useState([]): the chat transcript
  peerRef,         \* useRef(null): index into engines, 0 = null
  localStreamRef,  \* useRef(null): index into streams, 0 = null
  engines,         \* every RTCPeerConnection created so far
  streams,         \* every MediaStream getUserMedia returned so far
  tasks,           \* async handlers suspended at an await, oldest first
  timers,          \* pending setTimeout(findPartner, 1500): ticks left
  out,             \* socket.emit calls, in order
  errs,            \* rejections no handler catches
  log,             \* console.error of the candidate branch's catch
  remoteVideo,     \* remoteVideoRef.current.srcObject
  nLeft,           \* partner_left events handled (observation only)
  nDenied,         \* timer-started findPartner runs refused media (observation)
  budget,          \* inbound events and user actions still to come
  peer,            \* the client at the other end of the room (same fields)
  wire             \* events on their way to each of the two clients, in order

vars == <<variant, roomId, status, messages, peerRef, localStreamRef, engines,
          streams, tasks, timers, out, errs, log, remoteVideo, nLeft, nDenied,
          budget, peer, wire>>

----------------------------------------------------------------------------
(* Bounds and input sets *)

MaxEvents == 3
SettleTicks == 1

Variants == {"v1", "v2", "v3", "v4"}
None == "null"
RoomOrder == <<"r1", "r2">>
Rooms == {RoomOrder[i] : i \in 1..Len(RoomOrder)}
Cands == {"c1", "cx"}
BadCands == {"cx"}
Tracks == {"audio", "video"}
Texts == {"", "hi"}     \* "" stands for any text that trims to nothing

----------------------------------------------------------------------------
(* The client as one record, so that a handler is a function of it *)

State ==
  [roomId |-> roomId, status |-> status, messages |-> messages,
   peerRef |-> peerRef, localStreamRef |-> localStreamRef, engines |-> engines,
   streams |-> streams, tasks |-> tasks, timers |-> timers, out |-> out,
   errs |-> errs, log |-> log, remoteVideo |-> remoteVideo, nLeft |-> nLeft,
   nDenied |-> nDenied]

Commit(c) ==
  /\ roomId' = c.roomId
  /\ status' = c.status
  /\ messages' = c.messages
  /\ peerRef' = c.peerRef
  /\ localStreamRef' = c.localStreamRef
  /\ engines' = c.engines
  /\ streams' = c.streams
  /\ tasks' = c.tasks
  /\ timers' = c.timers
  /\ out' = c.out
  /\ errs' = c.errs
  /\ log' = c.log
  /\ remoteVideo' = c.remoteVideo
  /\ nLeft' = c.nLeft
  /\ nDenied' = c.nDenied

Msg(ev, kind, rid, eng, auto) ==
  [ev |-> ev, kind |-> kind, roomId |-> rid, eng |-> eng, auto |-> auto]

Emit(c, m) == [c EXCEPT !.out = Append(@, m)]

\* A suspended handler: the await it is at (k), the connection the awaited
\* operation runs on (eng), the roomId of the message that started it (rid),
\* the room it tags what it emits with (tag), the description it holds (made
\* by connection src, its seq-th) and the candidate it holds.
Task(k, eng, rid, tag, src, seq, cand, auto) ==
  [k |-> k, eng |-> eng, rid |-> rid, tag |-> tag, src |-> src, seq |-> seq,
   cand |-> cand, auto |-> auto]

NoTask(k, auto) == Task(k, 0, None, None, 0, 0, "", auto)

Await(c, t) == [c EXCEPT !.tasks = Append(@, t)]

\* A rejection nothing catches: the error, the await that raised it, and
\* the connection the call was made on with its signaling state at the time
\* (eng 0: peerRef.current was null).
Throw(c, err, at, eng) ==
  [c EXCEPT !.errs = @ \cup
     {[err |-> err, at |-> at, eng |-> eng,
       sig |-> IF eng = 0 THEN "none" ELSE c.engines[eng].sig]}]

\* console.error in the catch of the candidate branch: the candidate, the
\* error and the connection that refused it (0: peerRef.current was null).
LogIce(c, cand, eng, err) ==
  [c EXCEPT !.log = @ \cup {[cand |-> cand, eng |-> eng, err |-> err]}]

RemoveAt(s, i) == [j \in 1..(Len(s) - 1) |-> IF j < i THEN s[j] ELSE s[j + 1]]

----------------------------------------------------------------------------
(* RTCPeerConnection: the engine behind peerRef *)

\* new RTCPeerConnection(...) with onicecandidate tagged `tag` and the
\* tracks of the current local stream added (stream 0: none acquired); `by`
\* names the call site that created it and `room` the roomId of the message
\* it was created for.  conn is its connectionState, tracks the remote
\* tracks it has delivered, grouped those of them it put in its own remote
\* stream (event.streams[0]).
NewEngine(tag, room, stream, by) ==
  [rid |-> tag, room |-> room, stream |-> stream, by |-> by, sig |-> "stable",
   local |-> None, remote |-> None, cands |-> <<>>, closes |-> 0, nOff |-> 0,
   nAns |-> 0, nLocalOffer |-> 0, conn |-> "new", tracks |-> {},
   grouped |-> {}]

Ok(e) == [ok |-> TRUE, err |-> "", eng |-> e]
Fail(e, err) == [ok |-> FALSE, err |-> err, eng |-> e]

\* pc.createOffer(): a fresh offer, remembered as the last created one.
CreateOffer(e) == Ok([e EXCEPT !.nOff = @ + 1])

\* pc.createAnswer(): needs a remote offer to answer.
CreateAnswer(e) ==
  IF e.sig = "have-remote-offer"
  THEN Ok([e EXCEPT !.nAns = @ + 1])
  ELSE Fail(e, "InvalidStateError")

\* pc.setLocalDescription(d): d must be the description this connection
\* created last; an offer needs stable or have-local-offer, an answer
\* have-remote-offer.  `own` says d was created by this connection.
SetLocalDescription(e, type, own, seq) ==
  IF type = "offer"
  THEN IF ~own \/ seq # e.nOff THEN Fail(e, "InvalidModificationError")
       ELSE IF e.sig \in {"stable", "have-local-offer"}
       THEN Ok([e EXCEPT !.local = "offer", !.sig = "have-local-offer",
                         !.nLocalOffer = @ + 1])
       ELSE Fail(e, "InvalidStateError")
  ELSE IF ~own \/ seq # e.nAns THEN Fail(e, "InvalidModificationError")
       ELSE IF e.sig = "have-remote-offer"
       THEN Ok([e EXCEPT !.local = "answer", !.sig = "stable"])
       ELSE Fail(e, "InvalidStateError")

\* pc.setRemoteDescription(d).  An answer needs a pending local offer.  An
\* offer needs stable or have-remote-offer; on a pending local offer a
\* browser either rolls the local offer back first (rollback = TRUE, the
\* current recommendation) or rejects (older builds).
SetRemoteDescription(e, type, rollback) ==
  IF type = "answer"
  THEN IF e.sig = "have-local-offer"
       THEN Ok([e EXCEPT !.remote = "answer", !.sig = "stable"])
       ELSE Fail(e, "InvalidStateError")
  ELSE IF e.sig \in {"stable", "have-remote-offer"}
       THEN Ok([e EXCEPT !.remote = "offer", !.sig = "have-remote-offer"])
       ELSE IF rollback
       THEN Ok([e EXCEPT !.local = None, !.remote = "offer",
                         !.sig = "have-remote-offer"])
       ELSE Fail(e, "InvalidStateError")

\* pc.addIceCandidate(c): rejected while there is no remote description,
\* and for a candidate that does not parse or match.
AddIceCandidate(e, cand) ==
  IF e.remote = None THEN Fail(e, "InvalidStateError")
  ELSE IF cand \in BadCands THEN Fail(e, "OperationError")
  ELSE Ok([e EXCEPT !.cands = Append(@, cand)])

\* pc.close(): the connection is closed; its signaling state says so.
Close(e) == [e EXCEPT !.closes = @ + 1, !.sig = "closed"]

\* The operations of a closed connection that are still pending never
\* settle: the handlers awaiting them are never resumed.
AbandonOps(c, p) ==
  LET keep(t) == t.eng # p IN [c EXCEPT !.tasks = SelectSeq(@, keep)]

----------------------------------------------------------------------------
(* The component's helpers *)

\* What `roomId` reads as inside a socket handler.  v2 registers its
\* handlers once, on the first render, so they keep reading the initial
\* null; v3 and v4 register them again on every change of roomId, so a
\* handler reads the roomId of the render before its event.  (v1's handlers
\* never read the state: they use the rid of the message.)
ClosureRoomId(c) == IF variant = "v2" THEN None ELSE c.roomId

\* The room a handler started by a message for `rid` tags its engine's
\* candidates and its answer with: v1 passes rid on, v2-v4 read roomId.
HandlerRoom(c, rid) == IF variant = "v1" THEN rid ELSE ClosureRoomId(c)

\* createPeerConnection: the new connection is engines[NewId(c)].
NewId(c) == Len(c.engines) + 1

\* What the remote <video> element shows: nothing, the remoteStream that v1
\* makes for each connection, the connection's own remote stream, or a
\* stream made for one track (part_000).
NoVideo == [src |-> "null", eng |-> 0, track |-> ""]
Video(src, eng, track) == [src |-> src, eng |-> eng, track |-> track]

\* v1 makes a MediaStream for the connection and shows it at once.
createPeerConnection(c, tag, room, by) ==
  LET c1 == [c EXCEPT !.engines =
                        Append(@, NewEngine(tag, room, c.localStreamRef, by))]
  IN IF variant = "v1"
     THEN [c1 EXCEPT !.remoteVideo = Video("remoteStream", NewId(c), "")]
     ELSE c1

\* cleanup as it would be without `peerRef.current = null`.
cleanupKeepsPeer(c) ==
  LET p == c.peerRef
      s == c.localStreamRef
      c1 == [c EXCEPT !.roomId = None, !.remoteVideo = NoVideo]
      c2 == IF p # 0
            THEN [AbandonOps(c1, p) EXCEPT !.engines[p] = Close(@)]
            ELSE c1
  IN IF s # 0
     THEN [c2 EXCEPT !.streams[s].stops = @ + 1, !.localStreamRef = 0]
     ELSE c2

cleanup(c) ==
  LET p == c.peerRef
      s == c.localStreamRef
      c1 == [c EXCEPT !.roomId = None, !.remoteVideo = NoVideo]
      c2 == IF p # 0
            THEN [AbandonOps(c1, p) EXCEPT !.engines[p] = Close(@),
                                           !.peerRef = 0]
            ELSE c1
  IN IF s # 0
     THEN [c2 EXCEPT !.streams[s].stops = @ + 1, !.localStreamRef = 0]
     ELSE c2

\* findPartner up to its await of getUserMedia; `auto` says the call came
\* from the timer of partner_left and not from the button.
findPartner(c, auto) ==
  Await([c EXCEPT !.status = "Searching for partner", !.messages = <<>>],
        NoTask("getUserMedia", auto))

\* findPartner with socket.emit("find_partner") after the try/catch instead
\* of inside the try.
findPartnerResumeEmitsAnyway(c, t, granted) ==
  Emit(IF granted
       THEN [c EXCEPT !.streams = Append(@, [stops |-> 0]),
                      !.localStreamRef = Len(c.streams) + 1]
       ELSE [c EXCEPT !.status = "Media access denied.",
                      !.nDenied = IF t.auto THEN @ + 1 ELSE @],
       Msg("find_partner", "", None, 0, t.auto))

\* findPartner after the await: the stream is stored and find_partner
\* emitted, or the catch reports the refusal.
findPartnerResume(c, t, granted) ==
  IF granted
  THEN Emit([c EXCEPT !.streams = Append(@, [stops |-> 0]),
                      !.localStreamRef = Len(c.streams) + 1],
            Msg("find_partner", "", None, 0, t.auto))
  ELSE [c EXCEPT !.status = "Media access denied.",
                 !.nDenied = IF t.auto THEN @ + 1 ELSE @]

\* endChat as it would be if it left the teardown to the relay's reply.
endChatWithoutCleanup(c) ==
  [Emit(c, Msg("leave_room", "", c.roomId, 0, FALSE))
     EXCEPT !.status = "Chat ended"]

endChat(c) ==
  cleanup([Emit(c, Msg("leave_room", "", c.roomId, 0, FALSE))
             EXCEPT !.status = "Chat ended"])

----------------------------------------------------------------------------
(* socket.on("partner_found") *)

\* partner_found keeping the connection it already has instead of making a
\* new one.
PartnerFoundReusesEngine(c, rid, initiator) ==
  LET c1 == [c EXCEPT !.roomId = rid, !.status = "Partner found",
                      !.messages = <<>>]
      c2 == IF c.peerRef # 0 THEN c1
            ELSE [createPeerConnection(c1, HandlerRoom(c, rid), rid,
                                       "partner_found")
                    EXCEPT !.peerRef = NewId(c)]
  IN IF initiator
     THEN Await(c2, Task("createOffer", c2.peerRef, rid, rid, 0, 0, "",
                         FALSE))
     ELSE c2

PartnerFound(c, rid, initiator) ==
  LET id == NewId(c)
      c1 == [c EXCEPT !.roomId = rid, !.status = "Partner found",
                      !.messages = <<>>]
      c2 == [createPeerConnection(c1, HandlerRoom(c, rid), rid,
                                  "partner_found")
               EXCEPT !.peerRef = id]
  IN IF initiator
     THEN Await(c2, Task("createOffer", id, rid, rid, 0, 0, "", FALSE))
     ELSE c2

\* after `await peerRef.current.createOffer()`
PartnerFoundOffer(c, t) ==
  LET r == CreateOffer(c.engines[t.eng])
      c1 == [c EXCEPT !.engines[t.eng] = r.eng]
  IN IF c1.peerRef = 0
     THEN Throw(c1, "TypeError", "partner_found:setLocalDescription", 0)
     ELSE Await(c1, Task("setLocalOffer", c1.peerRef, t.rid, t.tag, t.eng,
                         r.eng.nOff, "", FALSE))

\* after `await peerRef.current.setLocalDescription(offer)`
PartnerFoundLocal(c, t) ==
  LET r == SetLocalDescription(c.engines[t.eng], "offer", t.src = t.eng, t.seq)
  IN IF r.ok
     THEN Emit([c EXCEPT !.engines[t.eng] = r.eng],
               Msg("signal", "offer", t.tag, t.src, FALSE))
     ELSE Throw(c, r.err, "partner_found:setLocalDescription", t.eng)

----------------------------------------------------------------------------
(* socket.on("signal") *)

SignalOffer(c, rid) ==
  LET c1 == IF c.peerRef = 0
            THEN [createPeerConnection(c, HandlerRoom(c, rid), rid, "offer")
                    EXCEPT !.peerRef = NewId(c)]
            ELSE c
  IN Await(c1, Task("setRemoteOffer", c1.peerRef, rid, HandlerRoom(c, rid),
                    0, 0, "", FALSE))

\* (the answer and the candidate branches never look at the roomId of
\* their message, in any snapshot)
SignalAnswer(c) ==
  IF c.peerRef = 0
  THEN Throw(c, "TypeError", "signal:answer", 0)
  ELSE Await(c, Task("setRemoteAnswer", c.peerRef, None, None, 0, 0, "",
                     FALSE))

SignalCandidate(c, cand) ==
  IF c.peerRef = 0
  THEN LogIce(c, cand, 0, "TypeError")
  ELSE Await(c, Task("addIceCandidate", c.peerRef, None, None, 0, 0, cand,
                     FALSE))

\* v3 creates the engine before it looks at the message.
\* (room: the roomId of the offer, if it is an offer that is being handled;
\* an answer or a candidate opens no session)
SignalEager(c, room) ==
  IF variant = "v3" /\ c.peerRef = 0
  THEN [createPeerConnection(c, ClosureRoomId(c), room, "eager")
          EXCEPT !.peerRef = NewId(c)]
  ELSE c

Signal(c, m) ==
  CASE m.kind = "offer" -> SignalOffer(SignalEager(c, m.roomId), m.roomId)
    [] m.kind = "answer" -> SignalAnswer(SignalEager(c, None))
    [] OTHER -> SignalCandidate(SignalEager(c, None), m.cand)

\* after `await peerRef.current.setRemoteDescription(offer)`
SignalOfferRemote(c, t, rollback) ==
  LET r == SetRemoteDescription(c.engines[t.eng], "offer", rollback)
      c1 == [c EXCEPT !.engines[t.eng] = r.eng]
  IN IF ~r.ok THEN Throw(c, r.err, "signal:offer:setRemoteDescription", t.eng)
     ELSE IF c1.peerRef = 0
     THEN Throw(c1, "TypeError", "signal:offer:createAnswer", 0)
     ELSE Await(c1, Task("createAnswer", c1.peerRef, t.rid, t.tag, 0, 0, "",
                         FALSE))

\* after `await peerRef.current.createAnswer()`
SignalOfferAnswer(c, t) ==
  LET r == CreateAnswer(c.engines[t.eng])
      c1 == [c EXCEPT !.engines[t.eng] = r.eng]
  IN IF ~r.ok THEN Throw(c, r.err, "signal:offer:createAnswer", t.eng)
     ELSE IF c1.peerRef = 0
     THEN Throw(c1, "TypeError", "signal:offer:setLocalDescription", 0)
     ELSE Await(c1, Task("setLocalAnswer", c1.peerRef, t.rid, t.tag, t.eng,
                         r.eng.nAns, "", FALSE))

\* the offer branch setting its answer and never sending it.
SignalOfferLocalUnsent(c, t) ==
  LET r == SetLocalDescription(c.engines[t.eng], "answer", t.src = t.eng, t.seq)
  IN IF r.ok THEN [c EXCEPT !.engines[t.eng] = r.eng]
     ELSE Throw(c, r.err, "signal:offer:setLocalDescription", t.eng)

\* after `await peerRef.current.setLocalDescription(answer)`
SignalOfferLocal(c, t) ==
  LET r == SetLocalDescription(c.engines[t.eng], "answer", t.src = t.eng, t.seq)
  IN IF r.ok
     THEN Emit([c EXCEPT !.engines[t.eng] = r.eng],
               Msg("signal", "answer", t.tag, t.src, FALSE))
     ELSE Throw(c, r.err, "signal:offer:setLocalDescription", t.eng)

\* the answer branch applying its description as if it were an offer.
SignalAnswerRemoteAsOffer(c, t) ==
  LET r == SetRemoteDescription(c.engines[t.eng], "offer", TRUE)
  IN IF r.ok THEN [c EXCEPT !.engines[t.eng] = r.eng]
     ELSE Throw(c, r.err, "signal:answer", t.eng)

\* after `await peerRef.current.setRemoteDescription(answer)`
SignalAnswerRemote(c, t) ==
  LET r == SetRemoteDescription(c.engines[t.eng], "answer", FALSE)
  IN IF r.ok THEN [c EXCEPT !.engines[t.eng] = r.eng]
     ELSE Throw(c, r.err, "signal:answer", t.eng)

\* after `await peerRef.current.addIceCandidate(candidate)`, or its catch
SignalCandidateAdded(c, t) ==
  LET r == AddIceCandidate(c.engines[t.eng], t.cand)
  IN IF r.ok THEN [c EXCEPT !.engines[t.eng] = r.eng]
     ELSE LogIce(c, t.cand, t.eng, r.err)

----------------------------------------------------------------------------
(* socket.on("partner_left") *)

\* partner_left with its listener registered twice.
PartnerLeftTwice(c) ==
  [cleanup([c EXCEPT !.status = "Partner left"])
     EXCEPT !.timers = Append(Append(@, SettleTicks), SettleTicks),
            !.nLeft = @ + 1]

PartnerLeft(c) ==
  [cleanup([c EXCEPT !.status = "Partner left"])
     EXCEPT !.timers = Append(@, SettleTicks), !.nLeft = @ + 1]

----------------------------------------------------------------------------
(* The text chat *)

\* socket.on("receive_message"): the message is appended, in any state.
ReceiveMessage(c, m) == [c EXCEPT !.messages = Append(@, m)]

\* sendMessage: nothing for an empty text or without a room; else the text
\* goes to the relay with the roomId and is appended as the user's own.
sendMessage(c, text) ==
  IF text = "" \/ c.roomId = None THEN c
  ELSE [Emit(c, Msg("send_message", "", c.roomId, 0, FALSE))
          EXCEPT !.messages = Append(@, [from |-> "me", text |-> text])]

----------------------------------------------------------------------------
(* The callbacks createPeerConnection sets on the connection *)

\* A connection is live from its creation to its close().
Live(e) == e.closes = 0

\* pc.onicecandidate with a candidate: sent at once, tagged with the roomId
\* the callback closed over when the connection was created.
IceCandidate(c, e) ==
  Emit(c, Msg("signal", "candidate", c.engines[e].rid, e, FALSE))

\* The connection reports connectionState "failed".  v1 and v3 log it in
\* onconnectionstatechange (v3 in oniceconnectionstatechange as well); v2
\* and part_000 set no such callback.
ConnectionStateChange(c, e) == [c EXCEPT !.engines[e].conn = "failed"]

\* pc.ontrack: the connection delivers a remote track, in its own remote
\* stream (grouped: event.streams = [stream]) or alone (event.streams = []).
\* v1 adds it to the connection's remoteStream; v2 and v3 show
\* event.streams[0], which is undefined when the track comes alone;
\* part_000 shows event.streams[0], or a new stream holding that one track.
Track(c, e, track, grouped) ==
  LET c1 == [c EXCEPT !.engines[e].tracks = @ \cup {track},
                      !.engines[e].grouped =
                         IF grouped THEN @ \cup {track} ELSE @]
  IN CASE variant = "v1" -> c1
       [] grouped -> [c1 EXCEPT !.remoteVideo = Video("streams0", e, "")]
       [] variant = "v4" ->
            [c1 EXCEPT !.remoteVideo = Video("inbound", e, track)]
       [] OTHER -> [c1 EXCEPT !.remoteVideo = NoVideo]

\* The tracks of the stream the remote <video> element shows.
Shown(c) ==
  CASE c.remoteVideo.src = "remoteStream" -> c.engines[c.remoteVideo.eng].tracks
    [] c.remoteVideo.src = "streams0" -> c.engines[c.remoteVideo.eng].grouped
    [] c.remoteVideo.src = "inbound" -> {c.remoteVideo.track}
    [] OTHER -> {}

----------------------------------------------------------------------------
(* The steps of the event loop *)

SignalMsgs ==
  [kind : {"offer", "answer"}, roomId : Rooms, cand : {""}]
    \cup [kind : {"candidate"}, roomId : Rooms, cand : Cands]

\* roomIds are opaque to the client: it stores them, compares them and
\* sends them back, nothing else.  So a behaviour and its image under a
\* renaming of the rooms are the same behaviour, and the relay's ids are
\* taken in the order of RoomOrder: an event names a room the client still
\* holds somewhere, or the first room it holds nowhere.
Mentioned(c) ==
  {c.roomId}
    \cup {c.engines[e].room : e \in 1..Len(c.engines)}
    \cup {c.engines[e].rid : e \in 1..Len(c.engines)}
    \cup {c.tasks[i].rid : i \in 1..Len(c.tasks)}
    \cup {c.tasks[i].tag : i \in 1..Len(c.tasks)}
    \cup {c.out[i].roomId : i \in 1..Len(c.out)}

RoomsNow(c) ==
  {RoomOrder[i] : i \in {j \in 1..Len(RoomOrder) :
     \/ RoomOrder[j] \in Mentioned(c)
     \/ \A k \in 1..(j - 1) : RoomOrder[k] \in Mentioned(c)}}

\* A connection runs its operations one at a time, in the order of the
\* calls: a suspended handler can resume once no older call on the same
\* connection is pending.  getUserMedia (eng = 0) waits for nothing.
Ready(c, i) ==
  \/ c.tasks[i].eng = 0
  \/ \A j \in 1..(i - 1) : c.tasks[j].eng # c.tasks[i].eng

\* The outcomes the environment chooses between when task t settles: the
\* user grants or refuses the media; a browser rolls back or rejects.
Outcomes(c, t) ==
  IF t.k = "getUserMedia" THEN BOOLEAN
  ELSE IF t.k = "setRemoteOffer" /\ c.engines[t.eng].sig = "have-local-offer"
  THEN BOOLEAN
  ELSE {TRUE}

Resume(c, i, choice) ==
  LET t == c.tasks[i]
      c0 == [c EXCEPT !.tasks = RemoveAt(@, i)]
  IN CASE t.k = "getUserMedia" -> findPartnerResume(c0, t, choice)
       [] t.k = "createOffer" -> PartnerFoundOffer(c0, t)
       [] t.k = "setLocalOffer" -> PartnerFoundLocal(c0, t)
       [] t.k = "setRemoteOffer" -> SignalOfferRemote(c0, t, choice)
       [] t.k = "createAnswer" -> SignalOfferAnswer(c0, t)
       [] t.k = "setLocalAnswer" -> SignalOfferLocal(c0, t)
       [] t.k = "setRemoteAnswer" -> SignalAnswerRemote(c0, t)
       [] OTHER -> SignalCandidateAdded(c0, t)

\* An inbound event or a user action: one of the bounded number to come.
Spend ==
  /\ budget > 0
  /\ budget' = budget - 1
  /\ variant' = variant
  /\ UNCHANGED <<peer, wire>>

OnPartnerFound ==
  /\ Spend
  /\ \E rid \in RoomsNow(State), initiator \in BOOLEAN :
       Commit(PartnerFound(State, rid, initiator))

OnSignal ==
  /\ Spend
  /\ \E m \in SignalMsgs :
       /\ m.roomId \in RoomsNow(State)
       /\ Commit(Signal(State, m))

OnPartnerLeft ==
  /\ Spend
  /\ Commit(PartnerLeft(State))

\* The Find Partner button is rendered while roomId is null.
ClickFindPartner ==
  /\ roomId = None
  /\ Spend
  /\ Commit(findPartner(State, FALSE))

\* The End Chat button is rendered while roomId is set.
ClickEndChat ==
  /\ roomId # None
  /\ Spend
  /\ Commit(endChat(State))

OnReceiveMessage ==
  /\ Spend
  /\ Commit(ReceiveMessage(State, [from |-> "peer", text |-> "hi"]))

\* The chat input is enabled while roomId is set; Enter calls sendMessage.
PressSend ==
  /\ roomId # None
  /\ Spend
  /\ \E text \in Texts : Commit(sendMessage(State, text))

\* Candidates are gathered once the connection has a local description.
OnIceCandidate ==
  /\ Spend
  /\ \E e \in 1..Len(engines) :
       /\ Live(engines[e])
       /\ engines[e].local # None
       /\ Commit(IceCandidate(State, e))

\* The transport can fail once both descriptions are set.
OnConnectionStateChange ==
  /\ Spend
  /\ \E e \in 1..Len(engines) :
       /\ Live(engines[e])
       /\ engines[e].local # None
       /\ engines[e].remote # None
       /\ engines[e].conn # "failed"
       /\ Commit(ConnectionStateChange(State, e))

\* Remote tracks come with the remote description, each once.
OnTrack ==
  /\ Spend
  /\ \E e \in 1..Len(engines), track \in Tracks, grouped \in BOOLEAN :
       /\ Live(engines[e])
       /\ engines[e].remote # None
       /\ track \notin engines[e].tracks
       /\ Commit(Track(State, e, track, grouped))

Settle ==
  \E i \in 1..Len(tasks) :
    /\ Ready(State, i)
    /\ \E choice \in Outcomes(State, tasks[i]) :
         Commit(Resume(State, i, choice))
    /\ UNCHANGED <<variant, budget, peer, wire>>

\* Time passes while no timer is due.
Tick ==
  /\ timers # <<>>
  /\ Head(timers) > 0
  /\ timers' = [j \in 1..Len(timers) |-> timers[j] - 1]
  /\ UNCHANGED <<variant, roomId, status, messages, peerRef, localStreamRef,
                 engines, streams, tasks, out, errs, log, remoteVideo, nLeft,
                 nDenied, budget, peer, wire>>

\* The timer of partner_left calls findPartner.
TimerFires ==
  /\ timers # <<>>
  /\ Head(timers) = 0
  /\ Commit(findPartner([State EXCEPT !.timers = Tail(@)], TRUE))
  /\ UNCHANGED <<variant, budget, peer, wire>>

\* The two ends of a room.
Peers == {"a", "b"}

\* A client after construction.
Idle ==
  [roomId |-> None, status |-> "Not connected", messages |-> <<>>,
   peerRef |-> 0, localStreamRef |-> 0, engines |-> <<>>, streams |-> <<>>,
   tasks |-> <<>>, timers |-> <<>>, out |-> <<>>, errs |-> {}, log |-> {},
   remoteVideo |-> NoVideo, nLeft |-> 0, nDenied |-> 0]

\* A client after the user clicked Find Partner and granted the media: the
\* stream is stored, find_partner emitted, no partner assigned yet.
Searching ==
  LET c1 == findPartner(Idle, FALSE)
  IN findPartnerResume([c1 EXCEPT !.tasks = <<>>], c1.tasks[1], TRUE)

NoWire == [p \in Peers |-> <<>>]

Init ==
  /\ variant \in Variants
  /\ roomId = None
  /\ status = "Not connected"
  /\ messages = <<>>
  /\ peerRef = 0
  /\ localStreamRef = 0
  /\ engines = <<>>
  /\ streams = <<>>
  /\ tasks = <<>>
  /\ timers = <<>>
  /\ out = <<>>
  /\ errs = {}
  /\ log = {}
  /\ remoteVideo = NoVideo
  /\ nLeft = 0
  /\ nDenied = 0
  /\ budget = MaxEvents
  /\ peer = Idle
  /\ wire = NoWire

Next ==
  \/ OnPartnerFound
  \/ OnSignal
  \/ OnPartnerLeft
  \/ ClickFindPartner
  \/ ClickEndChat
  \/ OnReceiveMessage
  \/ PressSend
  \/ OnIceCandidate
  \/ OnConnectionStateChange
  \/ OnTrack
  \/ Settle
  \/ Tick
  \/ TimerFires

Spec == Init /\ [][Next]_vars

\* The client starts as Searching.
InitSearching ==
  LET c == Searching
  IN /\ variant \in Variants
     /\ roomId = c.roomId
     /\ status = c.status
     /\ messages = c.messages
     /\ peerRef = c.peerRef
     /\ localStreamRef = c.localStreamRef
     /\ engines = c.engines
     /\ streams = c.streams
     /\ tasks = c.tasks
     /\ timers = c.timers
     /\ out = c.out
     /\ errs = c.errs
     /\ log = c.log
     /\ remoteVideo = c.remoteVideo
     /\ nLeft = c.nLeft
     /\ nDenied = c.nDenied
     /\ budget = MaxEvents
     /\ peer = Idle
     /\ wire = NoWire

SpecSearching == InitSearching /\ [][Next]_vars

----------------------------------------------------------------------------
(* What the properties below speak of *)

\* Task i settles with the given outcome in this step.
Settles(i, choice) ==
  /\ i \in 1..Len(tasks)
  /\ Ready(State, i)
  /\ choice \in Outcomes(State, tasks[i])
  /\ Commit(Resume(State, i, choice))
  /\ UNCHANGED <<variant, budget, peer, wire>>

\* Message m arrives on "signal" in this step.
Receives(m) == Spend /\ Commit(Signal(State, m))

\* The step leaves the whole client as it was.
ClientUnchanged == Commit(State)

Count(s, P(_)) == Cardinality({i \in 1..Len(s) : P(s[i])})

----------------------------------------------------------------------------
(* C1 *)

\* C1: a candidate handled before the engine's remote description is set is
\* kept and applied once the description is set; none is lost.  The only
\* place a candidate can go in the code is addIceCandidate, and the only
\* thing that happens to one the connection refuses for want of a remote
\* description is the catch that logs it: the claim says this never happens
\* to a candidate that found an engine (C9 is about one that found none).
C1_PendingCandidatesKept ==
  \A l \in log :
    ~(l.err = "InvalidStateError" /\ engines[l.eng].by # "eager")

----------------------------------------------------------------------------
(* C2 *)

\* C2: handling a signal message whose roomId is not the roomId of the
\* active session (or while there is none) changes nothing: no engine, no
\* description or candidate applied, nothing emitted, nothing raised.
C2_StaleSignalIsNoOp ==
  [][\A m \in SignalMsgs :
       (m.roomId # roomId /\ Receives(m)) => ClientUnchanged]_vars

----------------------------------------------------------------------------
(* C3 *)

IsAutoFind(m) == m.ev = "find_partner" /\ m.auto
IsAutoMedia(t) == t.k = "getUserMedia" /\ t.auto

\* find_partner emitted by a findPartner the timer of partner_left started
AutoFinds == Count(out, IsAutoFind)

\* findPartner runs the timer started that still await getUserMedia
AutoTasks == Count(tasks, IsAutoMedia)

\* departures whose re-entry is still to come
AutoPending == Len(timers) + AutoTasks

\* C3 as claimed: every partner_left is followed by exactly one automatic
\* find_partner, never none: once no re-entry is pending, as many
\* find_partner have been emitted by re-entries as partners have left.
C3_ReentryExactlyOnce == AutoPending = 0 => AutoFinds = nLeft

\* C3 as amended: partner_left runs cleanup (roomId cleared, the engine of
\* peerRef closed, the local tracks stopped) and schedules one findPartner,
\* which starts when the settling delay has elapsed; each departure is
\* accounted for by exactly one of: a re-entry still pending, one
\* find_partner emitted by it, one refusal of the media.
C3_ReentryOncePerDeparture ==
  [][/\ nLeft' = nLeft + 1 =>
          /\ roomId' = None /\ peerRef' = 0 /\ localStreamRef' = 0
          /\ peerRef # 0 => engines'[peerRef].closes = 1
          /\ localStreamRef # 0 => streams'[localStreamRef].stops = 1
          /\ timers' = Append(timers, SettleTicks)
     /\ AutoTasks' > AutoTasks =>
          timers # <<>> /\ Head(timers) = 0 /\ timers' = Tail(timers)
     /\ AutoFinds' + nDenied' + AutoPending' = nLeft']_vars

\* a partner left, the delay elapsed, the media was granted and the
\* re-entry emitted its find_partner
C3_Witness == nLeft = 1 /\ AutoFinds = 1 /\ AutoPending = 0

----------------------------------------------------------------------------
(* C4 *)

\* C4: on every engine an offer is generated at most once and set as local
\* description at most once; setting an offer on an engine that already has
\* a local description is rejected, leaves every engine as it was and emits
\* nothing.
C4_OfferOncePerEngine ==
  [][/\ \A e \in 1..Len(engines') :
          engines'[e].nOff <= 1 /\ engines'[e].nLocalOffer <= 1
     /\ \A i \in 1..Len(tasks) :
          (/\ tasks[i].k = "setLocalOffer"
           /\ engines[tasks[i].eng].local # None
           /\ Settles(i, TRUE))
            => /\ engines' = engines
               /\ out' = out
               /\ \E x \in errs' :
                    /\ x.at = "partner_found:setLocalDescription"
                    /\ x.eng = tasks[i].eng]_vars

\* an engine's own offer was set, and a second offer was then refused on it
C4_Witness ==
  \E x \in errs :
    /\ x.at = "partner_found:setLocalDescription"
    /\ x.sig = "have-local-offer"
    /\ engines[x.eng].nLocalOffer = 1

----------------------------------------------------------------------------
(* C5 *)

\* C5: an answer applied to an engine whose local description is not an
\* offer is rejected: it does not become the remote description and every
\* engine stays as it was.
C5_UnexpectedAnswerRejected ==
  [][\A i \in 1..Len(tasks) :
       (/\ tasks[i].k = "setRemoteAnswer"
        /\ engines[tasks[i].eng].local # "offer"
        /\ Settles(i, TRUE))
         => /\ engines' = engines
            /\ \E x \in errs' :
                 x.at = "signal:answer" /\ x.eng = tasks[i].eng]_vars

\* an answer was refused by an engine on which no local offer was ever set
C5_Witness ==
  \E x \in errs :
    /\ x.at = "signal:answer"
    /\ x.eng # 0
    /\ engines[x.eng].nLocalOffer = 0
    /\ engines[x.eng].remote # "answer"

----------------------------------------------------------------------------
(* C6 *)

\* C6: teardown is idempotent: a second cleanup right after a first changes
\* nothing, no engine is ever closed twice and no stream ever stopped twice.
C6_TeardownIdempotent ==
  /\ cleanup(cleanup(State)) = cleanup(State)
  /\ \A e \in 1..Len(engines) : engines[e].closes <= 1
  /\ \A s \in 1..Len(streams) : streams[s].stops <= 1

\* endChat tore the session down and partner_left then ran cleanup again:
\* the one engine there ever was is closed once
C6_Witness ==
  /\ nLeft = 1
  /\ Len(out) = 1 /\ out[1].ev = "leave_room"
  /\ Len(engines) = 1 /\ engines[1].closes = 1
  /\ peerRef = 0

----------------------------------------------------------------------------
(* C7 *)

\* C7: the answer to an offer that found no engine carries the roomId of
\* that offer, and a well-formed candidate that comes after the offer is
\* applied to the engine.
C7_AnswerCarriesOfferRoom ==
  [][\A i \in 1..Len(tasks) :
       /\ (/\ tasks[i].k = "setLocalAnswer"
           /\ engines[tasks[i].src].by \in {"offer", "eager"}
           /\ Settles(i, TRUE)
           /\ Len(out') = Len(out) + 1)
            => /\ out'[Len(out')].kind = "answer"
               /\ out'[Len(out')].roomId = tasks[i].rid
       /\ (/\ tasks[i].k = "addIceCandidate"
           /\ engines[tasks[i].eng].remote # None
           /\ tasks[i].cand \notin BadCands
           /\ Settles(i, TRUE))
            => engines'[tasks[i].eng].cands =
                 Append(engines[tasks[i].eng].cands, tasks[i].cand)]_vars

----------------------------------------------------------------------------
(* C8 *)

\* C8: an answer that finds no engine raises nothing unhandled and forces
\* the teardown: roomId, peerRef and the local stream are cleared and the
\* stream's tracks stopped.
C8_AnswerWithoutEngineTearsDown ==
  [][\A m \in SignalMsgs :
       (m.kind = "answer" /\ peerRef = 0 /\ Receives(m))
         => /\ errs' = errs
            /\ roomId' = None /\ peerRef' = 0 /\ localStreamRef' = 0
            /\ localStreamRef # 0 =>
                 streams'[localStreamRef].stops > 0]_vars

----------------------------------------------------------------------------
(* C9 *)

\* C9: a candidate that finds no engine is not dropped: it is not discarded
\* on arrival, nor by the engine created on the spot to receive it.
C9_CandidateWithoutEngineKept ==
  \A l \in log :
    /\ l.err # "TypeError"
    /\ ~(l.err = "InvalidStateError" /\ engines[l.eng].by = "eager")

----------------------------------------------------------------------------
(* C10 *)

IsFind(m) == m.ev = "find_partner"

\* C10: a findPartner whose media acquisition fails reports 'Media access
\* denied.' and does nothing else: nothing is emitted, no engine is made,
\* roomId, peerRef and localStreamRef stay as they were; and every
\* find_partner is emitted in the step that stores a newly acquired stream.
C10_MediaFailureContactsNobody ==
  [][/\ (\E i \in 1..Len(tasks) :
           /\ tasks[i].k = "getUserMedia"
           /\ tasks' = RemoveAt(tasks, i)
           /\ streams' = streams)
          => /\ status' = "Media access denied."
             /\ UNCHANGED <<out, engines, peerRef, roomId, localStreamRef,
                            timers, errs, messages>>
     /\ Count(out', IsFind) > Count(out, IsFind)
          => /\ Count(out', IsFind) = Count(out, IsFind) + 1
             /\ Len(streams') = Len(streams) + 1
             /\ localStreamRef' = Len(streams')]_vars

\* the user asked for a partner, the media was refused: the refusal is
\* reported and the client is as idle as before
C10_Witness ==
  /\ status = "Media access denied."
  /\ out = <<>> /\ engines = <<>> /\ streams = <<>>
  /\ localStreamRef = 0 /\ roomId = None /\ tasks = <<>>

----------------------------------------------------------------------------
(* C11 *)

\* C11: once the user has ended a chat, the client asks the relay for a
\* partner again only on the user's request: every find_partner that the
\* timer of partner_left emits after a leave_room has, between the two, a
\* find_partner the user asked for with the button.
C11_NoReentryAfterUserEnd ==
  \A i, j \in 1..Len(out) :
    (i < j /\ out[i].ev = "leave_room" /\ IsAutoFind(out[j]))
      => \E k \in (i + 1)..(j - 1) : IsFind(out[k]) /\ ~out[k].auto

----------------------------------------------------------------------------
(* C12 *)

\* The awaits of the handlers of partner_found and of the sdp branch.
SdpAwaits ==
  {"createOffer", "setLocalOffer", "setRemoteOffer", "createAnswer",
   "setLocalAnswer", "setRemoteAnswer"}

\* C12: when an await of partner_found or of the sdp branch completes after
\* the session was torn down (peerRef, which held a connection when the
\* handler made the call, is null again), the rest of the handler does
\* nothing: it emits nothing, raises nothing, creates no connection and
\* starts no further operation.
C12_CompletionAfterTeardownIsNoOp ==
  [][\A i \in 1..Len(tasks), choice \in BOOLEAN :
       (tasks[i].k \in SdpAwaits /\ peerRef = 0 /\ Settles(i, choice))
         => /\ out' = out
            /\ errs' = errs
            /\ Len(engines') = Len(engines)
            /\ tasks' = RemoveAt(tasks, i)]_vars

----------------------------------------------------------------------------
(* C13 *)

\* C13: the tracks of a local stream are never stopped while a connection
\* they were added to is live (created and not closed).
C13_LiveEngineTracksNotStopped ==
  \A e \in 1..Len(engines) :
    (Live(engines[e]) /\ engines[e].stream # 0)
      => streams[engines[e].stream].stops = 0

----------------------------------------------------------------------------
(* C14 *)

\* C14: when the connection of the active session reports the terminal
\* state "failed", the client does what it does on partner_left: the
\* connection is closed, the local tracks are stopped, roomId, peerRef and
\* localStreamRef are cleared and one findPartner is scheduled after the
\* settling delay.
C14_FailureTreatedAsDeparture ==
  [][(/\ peerRef # 0
      /\ roomId # None
      /\ engines[peerRef].conn # "failed"
      /\ engines'[peerRef].conn = "failed")
       => /\ engines'[peerRef].closes = 1
          /\ roomId' = None /\ peerRef' = 0 /\ localStreamRef' = 0
          /\ localStreamRef # 0 => streams'[localStreamRef].stops = 1
          /\ timers' = Append(timers, SettleTicks)]_vars

----------------------------------------------------------------------------
(* C15 *)

\* C15: every candidate a connection discovers goes out tagged with the
\* roomId of the session the connection was created for (the roomId of the
\* partner_found or of the offer that created it), never null and never the
\* roomId of another session.
C15_CandidateTaggedWithEngineRoom ==
  \A i \in 1..Len(out) :
    (out[i].kind = "candidate" /\ engines[out[i].eng].room # None)
      => out[i].roomId = engines[out[i].eng].room

----------------------------------------------------------------------------
(* C16 *)

\* The step emits one more message, and it is a `signal` offer.
EmitsOffer ==
  /\ Len(out') = Len(out) + 1
  /\ out'[Len(out')].kind = "offer"

\* C16: partner_found creates a connection bound to the assigned room (its
\* candidates carry that roomId) and puts it in peerRef; the offer an
\* initiator generates is set as local description of that connection and
\* then transmitted once, tagged with the assigned roomId; offers are
\* emitted by nothing but the handler of a partner_found with initiator.
C16_InitiatorOffersOnce ==
  [][/\ (/\ Len(engines') = Len(engines) + 1
         /\ engines'[Len(engines')].by = "partner_found")
          => /\ peerRef' = Len(engines')
             /\ engines'[peerRef'].rid = roomId'
     /\ \A i \in 1..Len(tasks) :
          /\ (tasks[i].k = "createOffer" /\ Settles(i, TRUE))
               => /\ Len(tasks') = Len(tasks)
                  /\ tasks'[Len(tasks')].k = "setLocalOffer"
                  /\ tasks'[Len(tasks')].eng = tasks[i].eng
          /\ (tasks[i].k = "setLocalOffer" /\ Settles(i, TRUE))
               => /\ EmitsOffer
                  /\ out'[Len(out')].roomId = tasks[i].rid
                  /\ engines'[tasks[i].eng].local = "offer"
     /\ EmitsOffer
          => /\ engines[out'[Len(out')].eng].by = "partner_found"
             /\ \A j \in 1..Len(out) :
                  out[j].kind = "offer"
                    => out[j].eng # out'[Len(out')].eng]_vars

----------------------------------------------------------------------------
(* C17 *)

\* C17: a remote offer is applied only to a connection that has no remote
\* description yet and no offer of its own as local description.
C17_NoOfferCollision ==
  [][\A i \in 1..Len(tasks), choice \in BOOLEAN :
       (/\ tasks[i].k = "setRemoteOffer"
        /\ Settles(i, choice)
        /\ SetRemoteDescription(engines[tasks[i].eng], "offer", choice).ok)
         => /\ engines[tasks[i].eng].remote = None
            /\ engines[tasks[i].eng].local # "offer"]_vars

----------------------------------------------------------------------------
(* C18 *)

\* C18: peerRef holds a connection only while a session is active, and it
\* is the live connection that was created for the room of that session.
C18_EngineWithinSession ==
  peerRef # 0
    => /\ roomId # None
       /\ engines[peerRef].room = roomId
       /\ Live(engines[peerRef])

----------------------------------------------------------------------------
(* C19 *)

\* The user ends the chat in this step; partner_left arrives in this step.
EndsChat == roomId # None /\ Spend /\ Commit(endChat(State))
PartnerLeaves == Spend /\ Commit(PartnerLeft(State))

\* C19: endChat emits exactly one leave_room, carrying the active roomId;
\* when endChat or partner_left has run, roomId, peerRef and localStreamRef
\* are null, the connection peerRef held is closed and the tracks of the
\* stream localStreamRef held are stopped.
C19_TeardownReleasesEverything ==
  [][/\ EndsChat
          => out' = Append(out, Msg("leave_room", "", roomId, 0, FALSE))
     /\ PartnerLeaves => out' = out
     /\ (EndsChat \/ PartnerLeaves)
          => /\ roomId' = None /\ peerRef' = 0 /\ localStreamRef' = 0
             /\ peerRef # 0
                  => /\ engines'[peerRef].closes = 1
                     /\ engines'[peerRef].sig = "closed"
             /\ localStreamRef # 0
                  => streams'[localStreamRef].stops = 1]_vars

\* the user found a partner with the media granted and ended the chat: the
\* connection is closed, the tracks are stopped, leave_room went out
C19_Witness ==
  /\ status = "Chat ended"
  /\ Len(out) = 2 /\ out[1].ev = "find_partner" /\ out[2].ev = "leave_room"
  /\ out[2].roomId \in Rooms
  /\ Len(engines) = 1 /\ engines[1].closes = 1 /\ engines[1].stream = 1
  /\ Len(streams) = 1 /\ streams[1].stops = 1
  /\ roomId = None /\ peerRef = 0 /\ localStreamRef = 0

----------------------------------------------------------------------------
(* C20 *)

\* C20: whichever way the tracks are delivered, the stream the remote
\* <video> element shows holds every track the session's connection has
\* delivered so far.
C20_RemoteStreamHoldsEveryTrack ==
  peerRef # 0 => engines[peerRef].tracks \subseteq Shown(State)

----------------------------------------------------------------------------
(* C21 *)

\* Nothing of the session changes in this step and nothing is raised.
SessionUntouched ==
  /\ errs' = errs
  /\ engines' = engines
  /\ UNCHANGED <<roomId, peerRef, localStreamRef, streams, out>>

\* C21: a candidate that cannot be applied (it finds peerRef null, or
\* addIceCandidate rejects it) is logged and discarded; roomId, peerRef,
\* every connection and the local stream are after the handler what they
\* were before it, and nothing is raised.
C21_FailedCandidateChangesNothing ==
  [][/\ \A m \in SignalMsgs :
          (m.kind = "candidate" /\ peerRef = 0 /\ Receives(m))
            => SessionUntouched
     /\ \A i \in 1..Len(tasks) :
          (/\ tasks[i].k = "addIceCandidate"
           /\ ~AddIceCandidate(engines[tasks[i].eng], tasks[i].cand).ok
           /\ Settles(i, TRUE))
            => /\ SessionUntouched
               /\ \E l \in log' :
                    l.cand = tasks[i].cand /\ l.eng = tasks[i].eng]_vars

----------------------------------------------------------------------------
(* C22 *)

\* Sequence s is an initial part of sequence t.
IsPrefix(s, t) == Len(s) <= Len(t) /\ SubSeq(t, 1, Len(s)) = s

\* C22: the transcript only grows at its end or is emptied as a whole, and
\* when endChat or partner_left has run its cleanup the transcript is empty.
C22_TranscriptClearedAtSessionEnd ==
  [][/\ IsPrefix(messages, messages') \/ messages' = <<>>
     /\ (EndsChat \/ PartnerLeaves) => messages' = <<>>]_vars

----------------------------------------------------------------------------
(* C24 *)

\* The connections that were created and not closed.
LiveEngines == {e \in 1..Len(engines) : Live(engines[e])}

\* C24: at most one connection is live, and it is the one peerRef holds.
C24_AtMostOneLiveEngine ==
  /\ Cardinality(LiveEngines) <= 1
  /\ \A e \in LiveEngines : e = peerRef

----------------------------------------------------------------------------
(* C23 *)

\* The user ends the chat (the button is there while roomId is set), clicks
\* Find Partner and grants the media.
Recover(c) ==
  LET c1 == IF c.roomId # None THEN endChat(c) ELSE c
      c2 == findPartner(c1, FALSE)
  IN Resume(c2, Len(c2.tasks), TRUE)

\* C23: from every reachable state, End Chat followed by Find Partner with
\* the media granted leaves no connection of the old session open, peerRef
\* null, a newly acquired stream in localStreamRef, and exactly one more
\* find_partner emitted.
C23_UserCanAlwaysRecover ==
  LET r == Recover(State)
  IN /\ r.peerRef = 0
     /\ \A e \in 1..Len(engines) : ~Live(r.engines[e])
     /\ r.localStreamRef = Len(streams) + 1
     /\ r.streams[r.localStreamRef].stops = 0
     /\ Count(r.out, IsFind) = Count(out, IsFind) + 1

----------------------------------------------------------------------------
(* C25 *)

IsMedia(t) == t.k = "getUserMedia"

\* A session is active: roomId is set or peerRef holds a live connection.
SessionActive ==
  roomId # None \/ (peerRef # 0 /\ Live(engines[peerRef]))

\* C25: while a session is active no step emits find_partner and no step
\* starts a media acquisition; the timer of partner_left firing after a new
\* partner_found is such a step.
C25_NoSearchWhilePaired ==
  [][SessionActive
       => /\ Count(out', IsFind) <= Count(out, IsFind)
          /\ Count(tasks', IsMedia) <= Count(tasks, IsMedia)]_vars

----------------------------------------------------------------------------
(* C26 *)

\* The acquired streams whose tracks were never stopped.
LiveStreams == {s \in 1..Len(streams) : streams[s].stops = 0}

\* C26: at most one acquired stream is un-stopped, and it is the one
\* localStreamRef holds.
C26_AtMostOneLiveStream ==
  /\ Cardinality(LiveStreams) <= 1
  /\ \A s \in LiveStreams : s = localStreamRef

----------------------------------------------------------------------------
(* Two clients in one room *)

MaxIce == 1

Other(p) == IF p = "a" THEN "b" ELSE "a"

\* Client "a" is the client of the variables above, client "b" is peer.
Client(p) == IF p = "a" THEN State ELSE peer

Put(p, c) ==
  IF p = "a" THEN Commit(c) /\ peer' = peer
  ELSE peer' = c /\ Commit(State)

\* An event on its way to a client: partner_found or a relayed signal.
Event(ev, kind, rid, cand, initiator) ==
  [ev |-> ev, kind |-> kind, roomId |-> rid, cand |-> cand,
   initiator |-> initiator]

IsSignal(m) == m.ev = "signal"
IsCandidate(m) == m.ev = "signal" /\ m.kind = "candidate"

\* The relay passes every signal message a client emits on to the other
\* client, in the order of emission, whatever roomId it carries.
Relayed(old, new) ==
  LET sent == SelectSeq(SubSeq(new.out, Len(old.out) + 1, Len(new.out)),
                        IsSignal)
  IN [i \in 1..Len(sent) |->
        Event("signal", sent[i].kind, sent[i].roomId,
              IF sent[i].kind = "candidate" THEN "c1" ELSE "", FALSE)]

\* The handler the socket runs for event m.
Handle(c, m) ==
  IF m.ev = "partner_found" THEN PartnerFound(c, m.roomId, m.initiator)
  ELSE Signal(c, m)

\* Client p goes to c, `rest` of its events are still to come, and what it
\* emitted on the way is relayed to the other client.
Run(p, c, rest) ==
  /\ Put(p, c)
  /\ wire' = [q \in Peers |-> IF q = p THEN rest
                              ELSE wire[q] \o Relayed(Client(p), c)]
  /\ UNCHANGED <<variant, budget>>

\* The next event for client p arrives and its handler runs.
Deliver(p) ==
  /\ wire[p] # <<>>
  /\ Run(p, Handle(Client(p), Head(wire[p])), Tail(wire[p]))

\* An await of client p settles and its handler goes on.
SettleAt(p) ==
  \E i \in 1..Len(Client(p).tasks) :
    /\ Ready(Client(p), i)
    /\ \E choice \in Outcomes(Client(p), Client(p).tasks[i]) :
         Run(p, Resume(Client(p), i, choice), wire[p])

\* A connection of client p that has a local description finds a candidate.
Gather(p) ==
  /\ Count(Client(p).out, IsCandidate) < MaxIce
  /\ \E e \in 1..Len(Client(p).engines) :
       /\ Live(Client(p).engines[e])
       /\ Client(p).engines[e].local # None
       /\ Run(p, IceCandidate(Client(p), e), wire[p])

PairDeliver == \E p \in Peers : Deliver(p)
PairSettle == \E p \in Peers : SettleAt(p)
PairGather == \E p \in Peers : Gather(p)

\* Both clients are searching and the relay has paired them: partner_found
\* for the same room is on its way to each, one of them as initiator.
InitPair ==
  LET c == Searching
  IN /\ variant \in Variants
     /\ roomId = c.roomId
     /\ status = c.status
     /\ messages = c.messages
     /\ peerRef = c.peerRef
     /\ localStreamRef = c.localStreamRef
     /\ engines = c.engines
     /\ streams = c.streams
     /\ tasks = c.tasks
     /\ timers = c.timers
     /\ out = c.out
     /\ errs = c.errs
     /\ log = c.log
     /\ remoteVideo = c.remoteVideo
     /\ nLeft = c.nLeft
     /\ nDenied = c.nDenied
     /\ budget = 0
     /\ peer = c
     /\ \E first \in Peers :
          wire = [p \in Peers |->
                    <<Event("partner_found", "", RoomOrder[1], "",
                            p = first)>>]

NextPair ==
  \/ PairDeliver
  \/ PairSettle
  \/ PairGather

\* Every delivered event is handled and every pending operation of a
\* connection settles: the relay is reliable and the event loop runs what
\* is queued.
SpecPair ==
  /\ InitPair
  /\ [][NextPair]_vars
  /\ \A p \in Peers : WF_vars(Deliver(p)) /\ WF_vars(SettleAt(p))

----------------------------------------------------------------------------
(* C27 *)

\* The connection client c holds, if it holds one.
Held(c) == c.engines[c.peerRef]

\* Client p made the offer and has the answer; the other client has the
\* offer and made the answer.
NegotiatedFrom(p) ==
  /\ Client(p).peerRef # 0
  /\ Client(Other(p)).peerRef # 0
  /\ Held(Client(p)).local = "offer"
  /\ Held(Client(p)).remote = "answer"
  /\ Held(Client(Other(p))).remote = "offer"
  /\ Held(Client(Other(p))).local = "answer"
  /\ \A q \in Peers : Live(Held(Client(q))) /\ Held(Client(q)).sig = "stable"

Negotiated == \E p \in Peers : NegotiatedFrom(p)

\* C27: two clients paired into one room, one of them initiator, behind a
\* relay that passes every signal on in order, end with the offer and the
\* answer applied at both ends.
C27_NegotiationCompletes == <>[]Negotiated

C27_Witness ==
  /\ Negotiated
  /\ \A p \in Peers :
       /\ Len(Client(p).engines) = 1
       /\ Client(p).errs = {}
       /\ Client(p).roomId = RoomOrder[1]

====
